---- MODULE Spec2Model ----
(***************************************************************************)
(* In-memory block file system of src/main.py: BlockStorage (bitmap and    *)
(* block buffers), FileDescriptor (direct block list, size, link count)    *)
(* and FileSystem (descriptor table, directory, open-file table).          *)
(*                                                                         *)
(* Every method is an operator over a state record s that returns          *)
(* [st, err, ret]: the state the call leaves behind (also when it raises:  *)
(* in-place mutations made before the exception stay), the exception it    *)
(* raised ("ok" when none) and the value it returned.  The actions apply   *)
(* these operators to the variables.                                       *)
(*                                                                         *)
(* Exceptions are named as the design document names them:                 *)
(*   NotFound         FileNotFoundError                                    *)
(*   AlreadyExists    FileExistsError                                      *)
(*   OutOfSpace       RuntimeError("No free blocks available")             *)
(*   NoCapacity       RuntimeError("No free direct blocks, ...")           *)
(*   CapacityExceeded RuntimeError("Maximum number of files reached")      *)
(*   InvalidArgument  ValueError("Data size exceeds block size")           *)
(*   IndexError       list index out of range                              *)
(***************************************************************************)
EXTENDS Integers, Sequences, FiniteSets, TLC

\* ---- size of the instance that is explored --------------------------------
\* FileSystem(num_blocks, block_size, max_files): the demo script builds
\* FileSystem(100, 512, 10); here the same proportions (num_blocks = max_files *
\* max_direct_blocks) at a size that can be explored
NumBlocks == 4
MaxFiles == 2
\* block_size, and max_direct_blocks of FileDescriptor.__init__ (10 in the source)
BlockSize == 2
MaxDirectBlocks == 2
\* names are 1..MaxNames, handle ids 0..MaxHandles-1, data bytes 1..MaxByte
MaxNames == 2
MaxHandles == 2
MaxByte == 2
\* number of calls in one run
MaxSteps == 4

Names == 1..MaxNames
Capacity == MaxDirectBlocks * BlockSize
\* cursors given to seek, lengths given to read, sizes given to truncate
Offsets == 0..Capacity
ReadSizes == 0..(Capacity + 1)
TruncSizes == 0..(Capacity + 1)
\* data given to write: every length up to one byte more than a file can hold,
\* position-dependent bytes, two variants of each length
Pattern(n, k) == [i \in 1..n |-> ((i + k) % MaxByte) + 1]
WriteData == { Pattern(n, k) : n \in 0..(Capacity + 1), k \in 0..1 }

VARIABLES bitmap, blocks, max_files, file_descriptors, directory, open_files,
          next_fd, last, steps

vars == <<bitmap, blocks, max_files, file_descriptors, directory, open_files,
          next_fd, last, steps>>

\* ---- helpers --------------------------------------------------------------
Min(S) == CHOOSE x \in S : \A y \in S : x <= y
Max2(a, b) == IF a >= b THEN a ELSE b
Min2(a, b) == IF a <= b THEN a ELSE b
CeilDiv(a, b) == (a + b - 1) \div b
\* Python list index: a negative index counts from the end
PyIdx(i, n) == IF i < 0 THEN n + i ELSE i
\* Python slices seq[:k] and seq[k:], k >= 0
Take(seq, k) == SubSeq(seq, 1, Min2(k, Len(seq)))
Drop(seq, k) == SubSeq(seq, Min2(k, Len(seq)) + 1, Len(seq))
\* an empty descriptor-table slot (None) and an occupied one
None == <<>>
Some(d) == <<d>>
\* Python dicts are functions; d[k] = v and del d[k]
EmptyMap == [k \in {} |-> 0]
MapPut(d, k, v) == [x \in DOMAIN d \cup {k} |-> IF x = k THEN v ELSE d[x]]
MapDel(d, k) == [x \in DOMAIN d \ {k} |-> d[x]]

ZeroBlock == [i \in 1..BlockSize |-> 0]

\* ---- BlockStorage ---------------------------------------------------------
\* allocate_block that returns the first free index without marking it used
AllocateBlockNoMark(bm) ==
    LET free == {i \in DOMAIN bm : bm[i] = 0}
    IN IF free = {}
       THEN [bitmap |-> bm, index |-> -1, err |-> "OutOfSpace"]
       ELSE [bitmap |-> bm, index |-> Min(free), err |-> "ok"]

\* allocate_block on a bitmap: [bitmap, index, err]
AllocateBlock(bm) ==
    LET free == {i \in DOMAIN bm : bm[i] = 0}
    IN IF free = {}
       THEN [bitmap |-> bm, index |-> -1, err |-> "OutOfSpace"]
       ELSE [bitmap |-> [bm EXCEPT ![Min(free)] = 1], index |-> Min(free), err |-> "ok"]

\* free_block on a store [bitmap, blocks]
FreeBlock(store, block_index) ==
    IF store.bitmap[block_index] = 1
    THEN [bitmap |-> [store.bitmap EXCEPT ![block_index] = 0],
          blocks |-> [store.blocks EXCEPT ![block_index] = ZeroBlock]]
    ELSE store

RECURSIVE FreeBlocks(_, _)
FreeBlocks(store, list) ==
    IF list = <<>> THEN store
    ELSE FreeBlocks(FreeBlock(store, Head(list)), Tail(list))

\* write_block with the slice one byte short
WriteBlockBytesShort(old, data) ==
    IF data = <<>> THEN old
    ELSE SubSeq(data, 1, Len(data) - 1) \o SubSeq(old, Len(data), Len(old))

\* the bytes write_block leaves in one block: data replaces the block's leading bytes
WriteBlockBytes(old, data) == data \o SubSeq(old, Len(data) + 1, Len(old))

\* write_block: [blocks, err]; blocks[block_index] is a Python list access
WriteBlock(bl, block_index, data) ==
    IF Len(data) > BlockSize
    THEN [blocks |-> bl, err |-> "InvalidArgument"]
    ELSE LET b == PyIdx(block_index, NumBlocks)
         IN [blocks |-> [bl EXCEPT ![b] = WriteBlockBytes(bl[b], data)], err |-> "ok"]

ReadBlock(bl, block_index) == bl[PyIdx(block_index, NumBlocks)]

\* ---- FileDescriptor -------------------------------------------------------
\* a descriptor that starts without its first link
NewFileDescriptorNoLink ==
    [file_type |-> "regular", hard_links |-> 0, size |-> 0,
     direct_blocks |-> [i \in 1..MaxDirectBlocks |-> -1], indirect_block |-> -1]

NewFileDescriptor ==
    [file_type |-> "regular", hard_links |-> 1, size |-> 0,
     direct_blocks |-> [i \in 1..MaxDirectBlocks |-> -1], indirect_block |-> -1]

\* add_block: [direct_blocks, err]
AddBlock(db, block_index) ==
    LET empty == {i \in 1..Len(db) : db[i] = -1}
    IN IF empty = {}
       THEN [direct_blocks |-> db, err |-> "NoCapacity"]
       ELSE [direct_blocks |-> [db EXCEPT ![Min(empty)] = block_index], err |-> "ok"]

GetBlocks(db) == SelectSeq(db, LAMBDA b : b # -1)

\* ---- FileSystem -----------------------------------------------------------
Fail(s, e) == [st |-> s, err |-> e, ret |-> <<>>]
Ok(s, r) == [st |-> s, err |-> "ok", ret |-> r]

NewFileSystem(num_descriptors) ==
    [bitmap |-> [i \in 0..(NumBlocks - 1) |-> 0],
     blocks |-> [i \in 0..(NumBlocks - 1) |-> ZeroBlock],
     max_files |-> num_descriptors,
     file_descriptors |-> [i \in 0..(num_descriptors - 1) |-> None],
     directory |-> EmptyMap,
     open_files |-> EmptyMap,
     next_fd |-> 0]

Mkfs(s, num_descriptors) == Ok(NewFileSystem(num_descriptors), <<>>)

Create(s, name) ==
    IF name \in DOMAIN s.directory THEN Fail(s, "AlreadyExists")
    ELSE LET empty == {i \in 0..(s.max_files - 1) : s.file_descriptors[i] = None}
         IN IF empty = {} THEN Fail(s, "CapacityExceeded")
            ELSE Ok([s EXCEPT !.file_descriptors[Min(empty)] = Some(NewFileDescriptor),
                              !.directory = MapPut(s.directory, name, Min(empty))], <<>>)

Open(s, name) ==
    IF name \notin DOMAIN s.directory THEN Fail(s, "NotFound")
    ELSE Ok([s EXCEPT !.open_files = MapPut(s.open_files, s.next_fd,
                                            [fd_index |-> s.directory[name], offset |-> 0]),
                      !.next_fd = s.next_fd + 1], <<s.next_fd>>)

\* close that deletes the entry without looking for it first
CloseRaises(s, fd) ==
    IF fd \in DOMAIN s.open_files
    THEN Ok([s EXCEPT !.open_files = MapDel(s.open_files, fd)], <<>>)
    ELSE Fail(s, "KeyError")

Close(s, fd) ==
    IF fd \in DOMAIN s.open_files
    THEN Ok([s EXCEPT !.open_files = MapDel(s.open_files, fd)], <<>>)
    ELSE Ok(s, <<>>)

Seek(s, fd, offset) ==
    IF fd \in DOMAIN s.open_files
    THEN Ok([s EXCEPT !.open_files[fd].offset = offset], <<>>)
    ELSE Fail(s, "NotFound")

\* file_data.decode(): UTF-8 text of the bytes read; a byte below 128 is the
\* character with that code point, any other byte here is undecodable
Decode(bytes) ==
    IF \A i \in 1..Len(bytes) : bytes[i] < 128
    THEN [text |-> bytes, err |-> "ok"]
    ELSE [text |-> <<>>, err |-> "UnicodeDecodeError"]

\* the clamp of read: the length that is read from offset when size is asked
ReadClamp(offset, size, total_size) ==
    IF offset + size > total_size THEN total_size - offset ELSE size

\* the loop of read: [data, current_offset, err]
RECURSIVE ReadLoop(_, _, _, _, _)
ReadLoop(bl, file_blocks, size, current_offset, file_data) ==
    IF size <= 0 THEN [data |-> file_data, current_offset |-> current_offset, err |-> "ok"]
    ELSE LET block_index == current_offset \div BlockSize
             block_offset == current_offset % BlockSize
             bytes_to_read == Min2(size, BlockSize - block_offset)
         IN IF block_index >= Len(file_blocks)
            THEN [data |-> file_data, current_offset |-> current_offset, err |-> "IndexError"]
            ELSE LET block_data == ReadBlock(bl, file_blocks[block_index + 1])
                 IN ReadLoop(bl, file_blocks, size - bytes_to_read,
                             current_offset + bytes_to_read,
                             file_data \o SubSeq(block_data, block_offset + 1,
                                                 block_offset + bytes_to_read))

Read(s, fd, size) ==
    IF fd \notin DOMAIN s.open_files THEN Fail(s, "NotFound")
    ELSE LET fd_index == s.open_files[fd].fd_index
             offset == s.open_files[fd].offset
             fd_obj == s.file_descriptors[fd_index][1]
             r == ReadLoop(s.blocks, GetBlocks(fd_obj.direct_blocks),
                           ReadClamp(offset, size, fd_obj.size), offset, <<>>)
         IN IF r.err # "ok" THEN Fail(s, r.err)
            ELSE LET s1 == [s EXCEPT !.open_files[fd].offset = r.current_offset]
                 IN IF Decode(r.data).err # "ok" THEN Fail(s1, Decode(r.data).err)
                    ELSE Ok(s1, Decode(r.data).text)

\* write that stores the final cursor as the size
WriteFinalSizeCursor(size, current_offset) == current_offset

\* the size write stores in the descriptor when its loop has finished
WriteFinalSize(size, current_offset) == Max2(size, current_offset)

\* the loop of write: [bitmap, blocks, direct_blocks, current_offset, err]
RECURSIVE WriteLoop(_, _, _, _, _)
WriteLoop(bm, bl, db, data, current_offset) ==
    IF data = <<>>
    THEN [bitmap |-> bm, blocks |-> bl, direct_blocks |-> db,
          current_offset |-> current_offset, err |-> "ok"]
    ELSE LET block_index == current_offset \div BlockSize
             block_offset == current_offset % BlockSize
             needs_block == block_index >= Len(db) \/ db[block_index + 1] = -1
             a == IF needs_block THEN AllocateBlock(bm)
                  ELSE [bitmap |-> bm, index |-> -1, err |-> "ok"]
             g == IF needs_block /\ a.err = "ok" THEN AddBlock(db, a.index)
                  ELSE [direct_blocks |-> db, err |-> "ok"]
             stop(e) == [bitmap |-> a.bitmap, blocks |-> bl, direct_blocks |-> g.direct_blocks,
                         current_offset |-> current_offset, err |-> e]
         IN IF a.err # "ok" THEN stop(a.err)
            ELSE IF g.err # "ok" THEN stop(g.err)
            ELSE IF block_index >= Len(g.direct_blocks) THEN stop("IndexError")
            ELSE LET block_data == Take(data, BlockSize - block_offset)
                     w == WriteBlock(bl, g.direct_blocks[block_index + 1], block_data)
                 IN IF w.err # "ok" THEN stop(w.err)
                    ELSE WriteLoop(a.bitmap, w.blocks, g.direct_blocks,
                                   Drop(data, Len(block_data)),
                                   current_offset + Len(block_data))

\* a write that stores size and cursor also when its loop raised
WriteResultAdvancing(s1, s2, err) ==
    IF err # "ok" THEN Fail(s2, err) ELSE Ok(s2, <<>>)

\* how write ends: s1 is the state its loop leaves, s2 is s1 with the size and the
\* cursor stored; an exception raised in the loop leaves before they are stored
WriteResult(s1, s2, err) ==
    IF err # "ok" THEN Fail(s1, err) ELSE Ok(s2, <<>>)

Write(s, fd, data) ==
    IF fd \notin DOMAIN s.open_files THEN Fail(s, "NotFound")
    ELSE LET fd_index == s.open_files[fd].fd_index
             offset == s.open_files[fd].offset
             fd_obj == s.file_descriptors[fd_index][1]
             r == WriteLoop(s.bitmap, s.blocks, fd_obj.direct_blocks, data, offset)
             s1 == [s EXCEPT !.bitmap = r.bitmap, !.blocks = r.blocks,
                             !.file_descriptors[fd_index] =
                                 Some([fd_obj EXCEPT !.direct_blocks = r.direct_blocks])]
             s2 == [s1 EXCEPT !.file_descriptors[fd_index] =
                                  Some([fd_obj EXCEPT !.direct_blocks = r.direct_blocks,
                                                      !.size = WriteFinalSize(fd_obj.size,
                                                                              r.current_offset)]),
                              !.open_files[fd].offset = r.current_offset]
         IN WriteResult(s1, s2, r.err)

\* link that leaves the count as it was
LinkCountSame(hard_links) == hard_links

\* the link count link stores
LinkCount(hard_links) == hard_links + 1

Link(s, name1, name2) ==
    IF name1 \notin DOMAIN s.directory THEN Fail(s, "NotFound")
    ELSE IF name2 \in DOMAIN s.directory THEN Fail(s, "AlreadyExists")
    ELSE LET fd_index == s.directory[name1]
             fd_obj == s.file_descriptors[fd_index][1]
         IN Ok([s EXCEPT !.file_descriptors[fd_index] =
                             Some([fd_obj EXCEPT !.hard_links = LinkCount(fd_obj.hard_links)]),
                         !.directory = MapPut(s.directory, name2, fd_index)], <<>>)

\* unlink that forgets the open handles
UnlinkReclaimsNoHandles(hard_links, fd_index, of) == hard_links = 0

\* unlink with "or" for "and"
UnlinkReclaimsEither(hard_links, fd_index, of) ==
    hard_links = 0 \/ fd_index \notin {of[h].fd_index : h \in DOMAIN of}

\* the test of unlink that decides whether the descriptor is reclaimed
UnlinkReclaims(hard_links, fd_index, of) ==
    hard_links = 0 /\ fd_index \notin {of[h].fd_index : h \in DOMAIN of}

Unlink(s, name) ==
    IF name \notin DOMAIN s.directory THEN Fail(s, "NotFound")
    ELSE LET fd_index == s.directory[name]
             fd_obj == s.file_descriptors[fd_index][1]
             links == fd_obj.hard_links - 1
             s1 == [s EXCEPT !.directory = MapDel(s.directory, name),
                             !.file_descriptors[fd_index] =
                                 Some([fd_obj EXCEPT !.hard_links = links])]
         IN IF UnlinkReclaims(links, fd_index, s.open_files)
            THEN LET store == FreeBlocks([bitmap |-> s.bitmap, blocks |-> s.blocks],
                                         GetBlocks(fd_obj.direct_blocks))
                 IN Ok([s1 EXCEPT !.bitmap = store.bitmap, !.blocks = store.blocks,
                                  !.file_descriptors[fd_index] = None], <<>>)
            ELSE Ok(s1, <<>>)

\* the growing loop of truncate: [bitmap, direct_blocks, err]
RECURSIVE GrowLoop(_, _, _)
GrowLoop(bm, db, count) ==
    IF count <= 0 THEN [bitmap |-> bm, direct_blocks |-> db, err |-> "ok"]
    ELSE LET a == AllocateBlock(bm)
             g == AddBlock(db, a.index)
         IN IF a.err # "ok" THEN [bitmap |-> bm, direct_blocks |-> db, err |-> a.err]
            ELSE IF g.err # "ok" THEN [bitmap |-> a.bitmap, direct_blocks |-> db, err |-> g.err]
            ELSE GrowLoop(a.bitmap, g.direct_blocks, count - 1)

\* the direct block list truncate leaves when it keeps blocks_to_keep blocks
ShrinkDirectBlocks(db, blocks_to_keep) == Take(db, blocks_to_keep)

Truncate(s, name, size) ==
    IF name \notin DOMAIN s.directory THEN Fail(s, "NotFound")
    ELSE LET fd_index == s.directory[name]
             fd_obj == s.file_descriptors[fd_index][1]
         IN IF size > fd_obj.size
            THEN LET current_blocks == Len(GetBlocks(fd_obj.direct_blocks))
                     blocks_needed == CeilDiv(size, BlockSize)
                     r == GrowLoop(s.bitmap, fd_obj.direct_blocks, blocks_needed - current_blocks)
                     s1 == [s EXCEPT !.bitmap = r.bitmap,
                                     !.file_descriptors[fd_index] =
                                         Some([fd_obj EXCEPT !.direct_blocks = r.direct_blocks])]
                 IN IF r.err # "ok" THEN Fail(s1, r.err)
                    ELSE Ok([s1 EXCEPT !.file_descriptors[fd_index] =
                                           Some([fd_obj EXCEPT !.direct_blocks = r.direct_blocks,
                                                               !.size = size])], <<>>)
            ELSE IF size < fd_obj.size
            THEN LET blocks_to_keep == CeilDiv(size, BlockSize)
                     blocks_to_free == Drop(GetBlocks(fd_obj.direct_blocks), blocks_to_keep)
                     store == FreeBlocks([bitmap |-> s.bitmap, blocks |-> s.blocks], blocks_to_free)
                 IN Ok([s EXCEPT !.bitmap = store.bitmap, !.blocks = store.blocks,
                                 !.file_descriptors[fd_index] =
                                     Some([fd_obj EXCEPT
                                             !.direct_blocks =
                                                 ShrinkDirectBlocks(fd_obj.direct_blocks,
                                                                    blocks_to_keep),
                                             !.size = size])], <<>>)
            ELSE Ok(s, <<>>)

\* stat returns the descriptor object; ls returns the directory
Stat(s, name) ==
    IF name \notin DOMAIN s.directory THEN Fail(s, "NotFound")
    ELSE Ok(s, s.file_descriptors[s.directory[name]])

Ls(s) == Ok(s, s.directory)

\* ---- the state machine ----------------------------------------------------
State ==
    [bitmap |-> bitmap, blocks |-> blocks, max_files |-> max_files,
     file_descriptors |-> file_descriptors, directory |-> directory,
     open_files |-> open_files, next_fd |-> next_fd]

\* one call: the variables take the state the call leaves; last records which
\* method ran, what it raised and what it returned
Call(op, r) ==
    /\ steps < MaxSteps
    /\ steps' = steps + 1
    /\ bitmap' = r.st.bitmap
    /\ blocks' = r.st.blocks
    /\ max_files' = r.st.max_files
    /\ file_descriptors' = r.st.file_descriptors
    /\ directory' = r.st.directory
    /\ open_files' = r.st.open_files
    /\ next_fd' = r.st.next_fd
    /\ last' = [op |-> op, err |-> r.err, ret |-> r.ret]

Init ==
    /\ bitmap = NewFileSystem(MaxFiles).bitmap
    /\ blocks = NewFileSystem(MaxFiles).blocks
    /\ max_files = NewFileSystem(MaxFiles).max_files
    /\ file_descriptors = NewFileSystem(MaxFiles).file_descriptors
    /\ directory = NewFileSystem(MaxFiles).directory
    /\ open_files = NewFileSystem(MaxFiles).open_files
    /\ next_fd = NewFileSystem(MaxFiles).next_fd
    /\ last = [op |-> "init", err |-> "ok", ret |-> <<>>]
    /\ steps = 0

HandleIds == 0..(MaxHandles - 1)

mkfs == \E n \in 1..MaxFiles : Call("mkfs", Mkfs(State, n))
create == \E name \in Names : Call("create", Create(State, name))
open ==
    /\ next_fd < MaxHandles
    /\ \E name \in Names : Call("open", Open(State, name))
close == \E fd \in HandleIds : Call("close", Close(State, fd))
seek == \E fd \in HandleIds, offset \in Offsets : Call("seek", Seek(State, fd, offset))
read == \E fd \in HandleIds, size \in ReadSizes : Call("read", Read(State, fd, size))
write == \E fd \in HandleIds, data \in WriteData : Call("write", Write(State, fd, data))
link == \E name1 \in Names, name2 \in Names : Call("link", Link(State, name1, name2))
unlink == \E name \in Names : Call("unlink", Unlink(State, name))
truncate == \E name \in Names, size \in TruncSizes : Call("truncate", Truncate(State, name, size))
stat == \E name \in Names : Call("stat", Stat(State, name))
ls == Call("ls", Ls(State))

Next ==
    \/ mkfs
    \/ create
    \/ open
    \/ close
    \/ seek
    \/ read
    \/ write
    \/ link
    \/ unlink
    \/ truncate
    \/ stat
    \/ ls

Spec == Init /\ [][Next]_vars

\* ---- what the properties speak of -----------------------------------------
Handles == DOMAIN open_files
Bound == DOMAIN directory
Occupied(s) == {i \in DOMAIN s.file_descriptors : s.file_descriptors[i] # None}
Fd(s, i) == s.file_descriptors[i][1]
FdOfHandle(s, h) == Fd(s, s.open_files[h].fd_index)
FdOfName(s, name) == Fd(s, s.directory[name])
NamesOf(s, i) == {n \in DOMAIN s.directory : s.directory[n] = i}
HandlesOn(s, i) == {h \in DOMAIN s.open_files : s.open_files[h].fd_index = i}
FreeCount(s) == Cardinality({b \in DOMAIN s.bitmap : s.bitmap[b] = 0})
HeldBlocks(s, i) == GetBlocks(Fd(s, i).direct_blocks)
EmptySlots(db) == Cardinality({k \in 1..Len(db) : db[k] = -1})
\* what a new handle on name reads from cursor 0 when it asks for size bytes
ReadThrough(s, name, size) ==
    LET o == Open(s, name) IN Read(o.st, o.ret[1], size)
\* what handle h reads when it is first moved to offset
ReadAt(s, h, offset, size) == Read(Seek(s, h, offset).st, h, size)

\* C1: on a freshly created file, through a handle just opened on it, write(h, data)
\* then seek(h, 0) then read(h, len(data)) returns data, for every length from 1 to
\* max_direct_blocks * block_size; the write succeeds whenever the store has the
\* free blocks the data needs.
C1_RoundTrip ==
    \A h \in Handles :
        (FdOfHandle(State, h) = NewFileDescriptor /\ open_files[h].offset = 0) =>
            \A data \in WriteData :
                (Len(data) >= 1 /\ Len(data) <= Capacity) =>
                    LET w == Write(State, h, data)
                        k == Seek(w.st, h, 0)
                        r == Read(k.st, h, Len(data))
                    IN /\ FreeCount(State) >= CeilDiv(Len(data), BlockSize) => w.err = "ok"
                       /\ w.err = "ok" => (k.err = "ok" /\ r.err = "ok" /\ r.ret = data)

\* a new file has just been written over more than one block, and reading it
\* back from cursor 0 returns one of the written sequences
C1_Witness ==
    /\ last.op = "write" /\ last.err = "ok"
    /\ \E h \in Handles :
           /\ FdOfHandle(State, h).size > BlockSize
           /\ open_files[h].offset = FdOfHandle(State, h).size
           /\ ReadAt(State, h, 0, FdOfHandle(State, h).size).ret \in WriteData

C3_Reclaimed ==
    \A i \in Occupied(State) :
        Fd(State, i).hard_links = 0 => HandlesOn(State, i) # {}

\* C4: after link(a, b) succeeds, stat(a) and stat(b) are the same descriptor, its
\* hard_links is one more than before (2 when a was its only name), and what is
\* written through a handle opened on one name is read through a handle opened on
\* the other.
C4_LinkSharing ==
    \A a \in Bound, b \in Names \ Bound :
        LET l == Link(State, a, b)
            i == directory[a]
        IN /\ l.err = "ok"
           /\ l.st.directory[a] = l.st.directory[b]
           /\ Stat(l.st, a).ret = Stat(l.st, b).ret
           /\ Stat(l.st, a).ret[1].size = Fd(State, i).size
           /\ Stat(l.st, a).ret[1].hard_links = Fd(State, i).hard_links + 1
           /\ NamesOf(State, i) = {a} => Stat(l.st, b).ret[1].hard_links = 2
           /\ \A x \in {a, b}, y \in {a, b} :
                  x # y =>
                      LET ox == Open(l.st, x)
                          oy == Open(ox.st, y)
                      IN \A data \in WriteData :
                             LET w == Write(oy.st, ox.ret[1], data)
                                 r == Read(w.st, oy.ret[1], Len(data))
                             IN w.err = "ok" => (r.err = "ok" /\ r.ret = data)

\* a second name has just been linked to a written file
C4_Witness ==
    /\ last.op = "link" /\ last.err = "ok"
    /\ \E a \in Bound, b \in Bound :
           /\ a # b /\ directory[a] = directory[b]
           /\ FdOfName(State, a).hard_links = 2
           /\ FdOfName(State, a).size > 0

\* C5: when a descriptor has two or more names, unlink(x) removes only x from the
\* directory, keeps every other binding, lowers hard_links by exactly 1, frees no
\* block, and size and content read through a remaining name are unchanged.
C5_UnlinkOneOfSeveral ==
    \A x \in Bound :
        LET i == directory[x]
            u == Unlink(State, x)
        IN Cardinality(NamesOf(State, i)) >= 2 =>
               /\ u.err = "ok"
               /\ DOMAIN u.st.directory = Bound \ {x}
               /\ \A y \in Bound \ {x} : u.st.directory[y] = directory[y]
               /\ i \in Occupied(u.st)
               /\ Fd(u.st, i).hard_links = Fd(State, i).hard_links - 1
               /\ u.st.bitmap = bitmap /\ u.st.blocks = blocks
               /\ Fd(u.st, i).size = Fd(State, i).size
               /\ Fd(u.st, i).direct_blocks = Fd(State, i).direct_blocks
               /\ \A y \in NamesOf(State, i) \ {x}, size \in ReadSizes :
                      LET after == ReadThrough(u.st, y, size)
                          before == ReadThrough(State, y, size)
                      IN after.err = before.err /\ after.ret = before.ret

\* one of the two names of a non-empty file has just been unlinked
C5_Witness ==
    /\ last.op = "unlink" /\ last.err = "ok"
    /\ \E y \in Bound : /\ FdOfName(State, y).hard_links = 1
                        /\ FdOfName(State, y).size > 0
                        /\ Cardinality(Bound) = 1

\* the bytes of the blocks descriptor i holds, in the order it holds them
BlockBytes(s, i) ==
    [p \in 1..(Len(HeldBlocks(s, i)) * BlockSize) |->
        s.blocks[HeldBlocks(s, i)[((p - 1) \div BlockSize) + 1]][((p - 1) % BlockSize) + 1]]
SeqToSet(seq) == {seq[k] : k \in 1..Len(seq)}

\* C6: truncate(name, n) with n below the size succeeds, sets the size to n, leaves
\* exactly ceil(n / block_size) blocks held, marks every block it dropped free, and
\* afterwards a read from cursor 0 returns the first n bytes of the old content (cut
\* to the length asked) and a read at a cursor >= n returns nothing.
C6_TruncateShrink ==
    \A name \in Bound, n \in TruncSizes :
        LET i == directory[name]
            t == Truncate(State, name, n)
            before == ReadThrough(State, name, Fd(State, i).size).ret
            o == Open(t.st, name)
        IN n < Fd(State, i).size =>
               /\ t.err = "ok"
               /\ Fd(t.st, i).size = n
               /\ Len(HeldBlocks(t.st, i)) = CeilDiv(n, BlockSize)
               /\ \A b \in SeqToSet(HeldBlocks(State, i)) \ SeqToSet(HeldBlocks(t.st, i)) :
                      t.st.bitmap[b] = 0
               /\ \A size \in ReadSizes :
                      /\ Read(o.st, o.ret[1], size).err = "ok"
                      /\ Read(o.st, o.ret[1], size).ret = Take(before, Min2(size, n))
               /\ \A offset \in Offsets, size \in ReadSizes :
                      offset >= n =>
                          /\ ReadAt(o.st, o.ret[1], offset, size).err = "ok"
                          /\ ReadAt(o.st, o.ret[1], offset, size).ret = <<>>

\* C7: truncate(name, n) with size < n <= max_direct_blocks * block_size and enough
\* free blocks succeeds, appends exactly the blocks missing to hold
\* ceil(n / block_size), and sets the size to n.
C7_TruncateGrow ==
    \A name \in Bound, n \in TruncSizes :
        LET i == directory[name]
            t == Truncate(State, name, n)
            held == HeldBlocks(State, i)
            missing == Max2(0, CeilDiv(n, BlockSize) - Len(held))
        IN (Fd(State, i).size < n /\ n <= Capacity /\ FreeCount(State) >= missing) =>
               /\ t.err = "ok"
               /\ Fd(t.st, i).size = n
               /\ Len(HeldBlocks(t.st, i)) = Len(held) + missing
               /\ SubSeq(HeldBlocks(t.st, i), 1, Len(held)) = held
               /\ FreeCount(t.st) = FreeCount(State) - missing

\* C8: on every open handle, at every cursor seek can set, read(h, n) with n >= 0
\* raises nothing, returns exactly max(0, min(n, size - offset)) bytes and moves
\* the cursor forward by the number of bytes returned.
C8_ReadClamp ==
    \A h \in Handles, offset \in Offsets, n \in ReadSizes :
        LET k == Seek(State, h, offset)
            r == Read(k.st, h, n)
            expect == Max2(0, Min2(n, FdOfHandle(State, h).size - offset))
        IN /\ r.err = "ok"
           /\ Len(r.ret) = expect
           /\ r.st.open_files[h].offset = offset + expect

\* C9: a write that succeeds from cursor c on a descriptor of size s leaves the
\* cursor at c + len(data) and the size at max(s, c + len(data)); no write, failed
\* or not, lowers the size of any descriptor.
C9_WriteBookkeeping ==
    \A h \in Handles, data \in WriteData :
        LET w == Write(State, h, data)
            c == open_files[h].offset
            i == open_files[h].fd_index
        IN /\ w.err = "ok" =>
                  /\ w.st.open_files[h].offset = c + Len(data)
                  /\ Fd(w.st, i).size = Max2(Fd(State, i).size, c + Len(data))
           /\ \A j \in Occupied(State) :
                  j \in Occupied(w.st) /\ Fd(w.st, j).size >= Fd(State, j).size

\* a write inside a longer file has just succeeded: the cursor is behind the size
C9_Witness ==
    /\ last.op = "write" /\ last.err = "ok"
    /\ \E h \in Handles : /\ open_files[h].offset > 0
                          /\ open_files[h].offset < FdOfHandle(State, h).size
                          /\ SeqToSet(BlockBytes(State, open_files[h].fd_index)) # {0}

\* C10 as first stated: a write that would pass max_direct_blocks * block_size
\* raises NoCapacity and leaves the cursor at the offset its loop had reached and
\* the size at the larger of the old size and that offset.
C10_PartialAdvance ==
    \A h \in Handles, data \in WriteData :
        LET c == open_files[h].offset
            i == open_files[h].fd_index
            w == Write(State, h, data)
            r == WriteLoop(bitmap, blocks, Fd(State, i).direct_blocks, data, c)
        IN c + Len(data) > Capacity =>
               /\ w.err = "NoCapacity"
               /\ w.st.blocks = r.blocks
               /\ w.st.open_files[h].offset = r.current_offset
               /\ Fd(w.st, i).size = Max2(Fd(State, i).size, r.current_offset)

\* C10 as it holds: a write that would pass max_direct_blocks * block_size raises
\* (NoCapacity, or OutOfSpace when the store runs out first, or IndexError when
\* the block list has no slot at the block index), and the size and every cursor are
\* as before the call.  From a block-aligned cursor inside the held blocks of a
\* descriptor with all its slots, with a free block to spare, it raises NoCapacity
\* and the bytes written up to the capacity are in the descriptor's blocks.
C10_FailedWrite ==
    \A h \in Handles, data \in WriteData :
        LET c == open_files[h].offset
            i == open_files[h].fd_index
            db == Fd(State, i).direct_blocks
            w == Write(State, h, data)
        IN c + Len(data) > Capacity =>
               /\ w.err \in {"NoCapacity", "OutOfSpace", "IndexError"}
               /\ Fd(w.st, i).size = Fd(State, i).size
               /\ w.st.open_files = open_files
               /\ (/\ c % BlockSize = 0
                   /\ c <= Len(HeldBlocks(State, i)) * BlockSize
                   /\ Len(db) = MaxDirectBlocks
                   /\ FreeCount(State) > EmptySlots(db)) =>
                      /\ w.err = "NoCapacity"
                      /\ SubSeq(BlockBytes(w.st, i), c + 1, Capacity) = Take(data, Capacity - c)

\* a write of more than a file can hold has just raised NoCapacity: the blocks
\* hold the bytes that fitted, the size and the cursor are still 0
C10_Witness ==
    /\ last.op = "write" /\ last.err = "NoCapacity"
    /\ \E h \in Handles :
           /\ open_files[h].offset = 0
           /\ FdOfHandle(State, h).size = 0
           /\ BlockBytes(State, open_files[h].fd_index)
                  \in {Take(d, Capacity) : d \in {x \in WriteData : Len(x) > Capacity}}

\* C11: create(name) with a name not in the directory succeeds exactly when a
\* descriptor-table slot is empty, and then binds name to a slot that was empty,
\* holding a descriptor with hard_links = 1, size = 0 and no blocks; when every
\* slot is occupied it raises CapacityExceeded and changes nothing.
C11_CreateCapacity ==
    \A name \in Names \ Bound :
        LET c == Create(State, name)
            empty == DOMAIN file_descriptors \ Occupied(State)
        IN /\ (c.err = "ok") = (empty # {})
           /\ empty # {} =>
                  /\ DOMAIN c.st.directory = Bound \cup {name}
                  /\ c.st.directory[name] \in empty
                  /\ FdOfName(c.st, name).hard_links = 1
                  /\ FdOfName(c.st, name).size = 0
                  /\ HeldBlocks(c.st, c.st.directory[name]) = <<>>
                  /\ \A i \in Occupied(State) : c.st.file_descriptors[i] = file_descriptors[i]
                  /\ c.st.bitmap = bitmap /\ c.st.blocks = blocks
                  /\ c.st.open_files = open_files
           /\ empty = {} => (c.err = "CapacityExceeded" /\ c.st = State)

\* a create has just been refused because every slot of the table is occupied
C11_Witness ==
    /\ last.op = "create" /\ last.err = "CapacityExceeded"
    /\ Occupied(State) = DOMAIN file_descriptors
    /\ Names \ Bound # {}

\* handle ids that are not open: closed ones and ones open has not given out yet
NotOpen == (0..MaxHandles) \ Handles

\* C12: seek, read and write on a handle id that is not open raise NotFound and
\* change nothing; close on such an id raises nothing and changes nothing; close
\* on an open handle removes that entry and nothing else.
C12_HandleStateMachine ==
    /\ \A fd \in NotOpen :
           /\ \A offset \in Offsets :
                  Seek(State, fd, offset).err = "NotFound" /\ Seek(State, fd, offset).st = State
           /\ \A size \in ReadSizes :
                  Read(State, fd, size).err = "NotFound" /\ Read(State, fd, size).st = State
           /\ \A data \in WriteData :
                  Write(State, fd, data).err = "NotFound" /\ Write(State, fd, data).st = State
           /\ Close(State, fd).err = "ok" /\ Close(State, fd).st = State
    /\ \A fd \in Handles :
           LET c == Close(State, fd)
           IN /\ c.err = "ok"
              /\ DOMAIN c.st.open_files = Handles \ {fd}
              /\ \A h \in Handles \ {fd} : c.st.open_files[h] = open_files[h]
              /\ c.st.directory = directory
              /\ c.st.file_descriptors = file_descriptors
              /\ c.st.bitmap = bitmap /\ c.st.blocks = blocks
              /\ c.st.next_fd = next_fd

\* a read on a handle that was opened and closed has just raised NotFound
C12_Witness ==
    /\ last.op = "read" /\ last.err = "NotFound"
    /\ next_fd > 0 /\ Handles = {}
    /\ Bound # {}

\* C13: no block index is held by two descriptors or twice by one, and every
\* block index a descriptor holds is marked used in the bitmap.
C13_ExclusiveOwnership ==
    \A i \in Occupied(State), j \in Occupied(State) :
        \A k \in 1..Len(HeldBlocks(State, i)), l \in 1..Len(HeldBlocks(State, j)) :
            /\ bitmap[HeldBlocks(State, i)[k]] = 1
            /\ (i # j \/ k # l) => HeldBlocks(State, i)[k] # HeldBlocks(State, j)[l]

\* two descriptors each hold blocks, one of them more than one
C13_Witness ==
    \E i \in Occupied(State), j \in Occupied(State) :
        /\ i # j
        /\ Len(HeldBlocks(State, i)) > 1
        /\ Len(HeldBlocks(State, j)) > 0

\* C14: every block marked free in the bitmap holds only zero bytes, and the number
\* of blocks marked used is at most num_blocks.
C14_NoStaleData ==
    /\ \A b \in DOMAIN bitmap : bitmap[b] = 0 => blocks[b] = ZeroBlock
    /\ NumBlocks - FreeCount(State) <= NumBlocks
    /\ DOMAIN bitmap = DOMAIN blocks

\* C15: the size of every descriptor in the table is at most the number of blocks
\* it holds times block_size.
C15_SizeWithinCapacity ==
    \A i \in Occupied(State) :
        Fd(State, i).size <= Len(HeldBlocks(State, i)) * BlockSize

\* C16: hard_links of every descriptor in the table equals the number of directory
\* names bound to its index; so it is at least 1 for a descriptor that has a name
\* and never negative.
C16_LinkCount ==
    /\ \A i \in Occupied(State) :
           /\ Fd(State, i).hard_links = Cardinality(NamesOf(State, i))
           /\ Fd(State, i).hard_links >= 0
    /\ \A name \in Bound :
           /\ directory[name] \in Occupied(State)
           /\ FdOfName(State, name).hard_links >= 1

\* one descriptor has two names and another has lost its only name under a handle
C16_Witness ==
    \/ \E i \in Occupied(State) : Fd(State, i).hard_links = 2 /\ Cardinality(NamesOf(State, i)) = 2
    \/ /\ \E i \in Occupied(State) : Fd(State, i).hard_links = 0 /\ HandlesOn(State, i) # {}
       /\ \E i \in Occupied(State) : Fd(State, i).hard_links = 1

\* C17: the direct_blocks list of every descriptor in the table has exactly
\* max_direct_blocks slots, each a block index or the empty sentinel -1.
C17_FixedSlots ==
    \A i \in Occupied(State) :
        /\ Len(Fd(State, i).direct_blocks) = MaxDirectBlocks
        /\ \A k \in 1..Len(Fd(State, i).direct_blocks) :
               Fd(State, i).direct_blocks[k] \in (-1)..(NumBlocks - 1)

\* C18: every block marked used in the bitmap is held by a descriptor in the table.
C18_NoLeakedBlocks ==
    \A b \in DOMAIN bitmap :
        bitmap[b] = 1 => \E i \in Occupied(State) : b \in SeqToSet(HeldBlocks(State, i))

\* C19: write(h, data) changes the content of no block other than those the
\* descriptor of h holds after the write, at every cursor seek can set.
C19_WriteFrame ==
    \A h \in Handles, offset \in Offsets, data \in WriteData :
        LET w == Write(Seek(State, h, offset).st, h, data)
            i == open_files[h].fd_index
        IN \A b \in DOMAIN blocks :
               b \notin SeqToSet(HeldBlocks(w.st, i)) => w.st.blocks[b] = blocks[b]

\* C20: every directory entry and every open handle refers to an index of the
\* descriptor table whose slot is occupied; and create and unlink, from this state,
\* leave again only such references and overwrite no occupied slot that a name or
\* a handle still refers to.
Referenced(s) ==
    {s.directory[n] : n \in DOMAIN s.directory}
        \cup {s.open_files[h].fd_index : h \in DOMAIN s.open_files}
NoDangling(s) == Referenced(s) \subseteq Occupied(s)

C20_NoDanglingReferences ==
    /\ NoDangling(State)
    /\ Occupied(State) \subseteq 0..(max_files - 1)
    /\ \A name \in Names :
           /\ NoDangling(Create(State, name).st)
           /\ NoDangling(Unlink(State, name).st)
           /\ \A i \in Occupied(State) :
                  Create(State, name).st.file_descriptors[i] = file_descriptors[i]
           /\ \A i \in Referenced(Unlink(State, name).st) :
                  /\ Fd(Unlink(State, name).st, i).direct_blocks = Fd(State, i).direct_blocks
                  /\ Fd(Unlink(State, name).st, i).size = Fd(State, i).size

\* a file unlinked under an open handle keeps slot 0, and a create that followed
\* took another slot
C20_Witness ==
    /\ last.op = "create" /\ last.err = "ok"
    /\ \E h \in Handles : /\ FdOfHandle(State, h).hard_links = 0
                          /\ NamesOf(State, open_files[h].fd_index) = {}
                          /\ \E n \in Bound : directory[n] # open_files[h].fd_index

====
